---- MODULE Spec2Model ----
(***************************************************************************)
(* Expense-management application: the App component's transaction store,  *)
(* its persistence effects, the JSON backup export / import of the         *)
(* Analytics view, the AI advisory request of the Dashboard view and the   *)
(* period filters of the Analytics view.                                   *)
(*                                                                         *)
(* Representation.                                                         *)
(*   - An ISO date string "YYYY-MM-DD" is the triple <<y, m, d>>; the empty *)
(*     string is <<>>.  Lexical order on the zero-padded strings is the     *)
(*     lexicographic order on the triples.                                  *)
(*   - An instant is counted in hours; new Date("YYYY-MM-DD") is UTC        *)
(*     midnight of that date, local getters shift by the zone offset tz.    *)
(*   - JSON text is a sequence of tokens [k |-> kind, v |-> value].         *)
(*   - A transaction id (an opaque string in the program) is a number.      *)
(***************************************************************************)
EXTENDS Integers, Sequences, FiniteSets, TLC

(* ------------------------------ bounds --------------------------------- *)
MaxLen == 2          \* longest list the add handler may build
MaxId == 2           \* number of distinct id strings
MaxInFlight == 2     \* advisory requests awaiting a response

Ids == 1..MaxId

(* ------------------------- calendar arithmetic ------------------------- *)
IsLeap(y) == (y % 4 = 0 /\ y % 100 # 0) \/ y % 400 = 0

DaysInMonth(y, m) ==
  IF m = 2 THEN (IF IsLeap(y) THEN 29 ELSE 28)
  ELSE IF m \in {4, 6, 9, 11} THEN 30 ELSE 31

LeapYearsBefore(y) == ((y - 1) \div 4) - ((y - 1) \div 100) + ((y - 1) \div 400)

\* Days from 1 January 1970 to 1 January of year y.
DaysBeforeYear(y) == 365 * (y - 1970) + LeapYearsBefore(y) - LeapYearsBefore(1970)

RECURSIVE DaysBeforeMonth(_, _)
DaysBeforeMonth(y, m) ==
  IF m <= 1 THEN 0 ELSE DaysBeforeMonth(y, m - 1) + DaysInMonth(y, m - 1)

\* Day count of a calendar date from 1 January 1970.
DayNumber(date) ==
  DaysBeforeYear(date[1]) + DaysBeforeMonth(date[1], date[2]) + date[3] - 1

PrevDay(date) ==
  IF date[3] > 1 THEN <<date[1], date[2], date[3] - 1>>
  ELSE IF date[2] > 1
       THEN <<date[1], date[2] - 1, DaysInMonth(date[1], date[2] - 1)>>
       ELSE <<date[1] - 1, 12, 31>>

NextDay(date) ==
  IF date[3] < DaysInMonth(date[1], date[2])
  THEN <<date[1], date[2], date[3] + 1>>
  ELSE IF date[2] < 12 THEN <<date[1], date[2] + 1, 1>>
       ELSE <<date[1] + 1, 1, 1>>

RECURSIVE AddDays(_, _)
AddDays(date, n) ==
  IF 1 <= date[3] + n /\ date[3] + n <= DaysInMonth(date[1], date[2])
  THEN <<date[1], date[2], date[3] + n>>
  ELSE IF n > 0
       THEN AddDays(NextDay(<<date[1], date[2], DaysInMonth(date[1], date[2])>>),
                    n - (DaysInMonth(date[1], date[2]) - date[3] + 1))
       ELSE AddDays(PrevDay(<<date[1], date[2], 1>>), n + date[3])

\* Lexical comparison of two ISO date strings.
DateLeq(a, b) ==
  \/ a[1] < b[1]
  \/ a[1] = b[1] /\ a[2] < b[2]
  \/ a[1] = b[1] /\ a[2] = b[2] /\ a[3] <= b[3]

\* new Date("YYYY-MM-DD").getTime(): UTC midnight of the date, in hours.
ParseDateTime(date) == DayNumber(date) * 24

\* The instant of a local calendar date and hour under zone offset tz.
LocalTime(date, hour, tz) == DayNumber(date) * 24 + hour - tz

\* The local calendar date of new Date("YYYY-MM-DD") under zone offset tz
\* (|tz| < 24): getFullYear / getMonth / getDate read this date.
LocalDateOfParsed(date, tz) == IF tz < 0 THEN PrevDay(date) ELSE date

(* ---------------------------- transactions ----------------------------- *)
Transaction(id, amount, type, category, date, note) ==
  [id |-> id, amount |-> amount, type |-> type,
   category |-> category, date |-> date, note |-> note]

RECURSIVE SumAmounts(_)
SumAmounts(s) == IF s = <<>> THEN 0 ELSE Head(s).amount + SumAmounts(Tail(s))

Abs(n) == IF n < 0 THEN -n ELSE n

\* analyzeSpending: transactions.sort((a, b) => new Date(b.date) - new Date(a.date)),
\* a stable sort, newest first, of the array it is handed.
RECURSIVE InsertByDateDesc(_, _)
InsertByDateDesc(t, s) ==
  IF s = <<>> THEN <<t>>
  ELSE IF ParseDateTime(Head(s).date) >= ParseDateTime(t.date)
       THEN <<Head(s)>> \o InsertByDateDesc(t, Tail(s))
       ELSE <<t>> \o s

RECURSIVE SortFrom(_, _)
SortFrom(rest, acc) ==
  IF rest = <<>> THEN acc
  ELSE SortFrom(Tail(rest), InsertByDateDesc(Head(rest), acc))

SortByDateDesc(s) == SortFrom(s, <<>>)

(* ------------------------------ JSON text ------------------------------ *)
Punct(c) == [k |-> "punct", v |-> c]
Key(n) == [k |-> "key", v |-> n]
Num(n) == [k |-> "number", v |-> n]
Str(x) == [k |-> "string", v |-> x]
NullTok == [k |-> "null", v |-> "null"]

IsPunct(tok, c) == tok.k = "punct" /\ tok.v = c
IsKey(tok, n) == tok.k = "key" /\ tok.v = n

StringifyTransaction(t) ==
  << Punct("{"),
     Key("id"), Str(t.id), Key("amount"), Num(t.amount),
     Key("type"), Str(t.type), Key("category"), Str(t.category),
     Key("date"), Str(t.date), Key("note"), Str(t.note),
     Punct("}") >>

RECURSIVE StringifyItems(_)
StringifyItems(list) ==
  IF list = <<>> THEN <<>>
  ELSE StringifyTransaction(Head(list)) \o StringifyItems(Tail(list))

\* JSON.stringify(transactions): the text of an array of records.
Stringify(list) == <<Punct("[")>> \o StringifyItems(list) \o <<Punct("]")>>

\* JSON.stringify(budget)
StringifyBudget(b) ==
  << Punct("{"), Key("monthlyLimit"), Num(b.monthlyLimit),
     Key("savingsGoal"), Num(b.savingsGoal), Punct("}") >>

\* An element of a parsed array that is the JSON value null.
JsonNull == [isNull |-> TRUE]

IsTransactionText(s) ==
  /\ Len(s) >= 14
  /\ IsPunct(s[1], "{") /\ IsPunct(s[14], "}")
  /\ IsKey(s[2], "id") /\ s[3].k = "string"
  /\ IsKey(s[4], "amount") /\ s[5].k = "number"
  /\ IsKey(s[6], "type") /\ s[7].k = "string"
  /\ IsKey(s[8], "category") /\ s[9].k = "string"
  /\ IsKey(s[10], "date") /\ s[11].k = "string"
  /\ IsKey(s[12], "note") /\ s[13].k = "string"

RECURSIVE WellFormedItems(_)
WellFormedItems(s) ==
  \/ s = <<>>
  \/ s # <<>> /\ s[1].k = "null" /\ WellFormedItems(Tail(s))
  \/ IsTransactionText(s) /\ WellFormedItems(SubSeq(s, 15, Len(s)))

RECURSIVE ParseItems(_)
ParseItems(s) ==
  IF s = <<>> THEN <<>>
  ELSE IF s[1].k = "null" THEN <<JsonNull>> \o ParseItems(Tail(s))
  ELSE << Transaction(s[3].v, s[5].v, s[7].v, s[9].v, s[11].v, s[13].v) >>
         \o ParseItems(SubSeq(s, 15, Len(s)))

\* JSON.parse(text): kind "error" stands for the SyntaxError it throws.
Parse(s) ==
  IF Len(s) >= 2 /\ IsPunct(s[1], "[") /\ IsPunct(s[Len(s)], "]")
     /\ WellFormedItems(SubSeq(s, 2, Len(s) - 1))
  THEN [kind |-> "array", items |-> ParseItems(SubSeq(s, 2, Len(s) - 1))]
  ELSE IF Len(s) >= 2 /\ IsPunct(s[1], "{") /\ IsPunct(s[Len(s)], "}")
  THEN [kind |-> "object", items |-> <<>>]
  ELSE IF s = <<NullTok>>
  THEN [kind |-> "null", items |-> <<>>]
  ELSE [kind |-> "error", items |-> <<>>]

\* JavaScript truthiness of a number and of a string.
TruthyNumber(n) == n # 0
TruthyString(x) == x # <<>>

(* ----------------------------- universes -------------------------------- *)
Categories == {"food", "transport", "income"}
ExpenseCategories == Categories \ {"income"}

Jan1 == <<2024, 1, 1>>
Jan2 == <<2024, 1, 2>>

\* What the transaction form can submit in add mode (TransactionForm.handleSubmit):
\* a positive whole amount, type income exactly with category income.
FormAmounts == {50}
FormDates == {Jan1, Jan2}
FormNotes == {"lunch"}
FormTypeCategory ==
  {<<"expense", c>> : c \in ExpenseCategories} \cup {<<"income", "income">>}

AddSubmissions ==
  { [amount |-> a, type |-> tc[1], category |-> tc[2], date |-> d, note |-> n] :
      a \in FormAmounts, tc \in FormTypeCategory, d \in FormDates, n \in FormNotes }

\* What the form can submit when it was opened on the record t (edit mode):
\* the id of t; the type / category pair of t or a pair the toggles produce;
\* the digits of t's amount or a typed amount.
EditSubmissions(t) ==
  { Transaction(t.id, a, tc[1], tc[2], d, n) :
      a \in FormAmounts \cup (IF t.amount # 0 THEN {Abs(t.amount)} ELSE {}),
      tc \in FormTypeCategory \cup {<<t.type, t.category>>},
      d \in FormDates \cup {t.date}, n \in FormNotes \cup {t.note} }

\* Files the user can pick in the import dialog.
ImportFileNames ==
  {"object", "truncated", "empty", "nullFirst", "zeroAmountFirst",
   "emptyDateFirst", "duplicateIds", "zeroSecond", "negativeAmount"}

FileText(name) ==
  CASE name = "object" ->
         <<Punct("{"), Key("transactions"), Punct("["), Punct("]"), Punct("}")>>
    [] name = "truncated" -> <<Punct("["), Punct("{")>>
    [] name = "empty" -> Stringify(<<>>)
    [] name = "nullFirst" -> <<Punct("["), NullTok, Punct("]")>>
    [] name = "zeroAmountFirst" ->
         Stringify(<<Transaction(1, 0, "expense", "food", Jan1, "lunch")>>)
    [] name = "emptyDateFirst" ->
         Stringify(<<Transaction(1, 50, "expense", "food", <<>>, "lunch"),
                     Transaction(2, 50, "expense", "food", Jan1, "lunch")>>)
    [] name = "duplicateIds" ->
         Stringify(<<Transaction(1, 50, "expense", "food", Jan1, "lunch"),
                     Transaction(1, 50, "income", "income", Jan2, "lunch")>>)
    [] name = "zeroSecond" ->
         Stringify(<<Transaction(1, 50, "expense", "food", Jan1, "lunch"),
                     Transaction(2, 0, "expense", "food", Jan2, "lunch")>>)
    [] name = "negativeAmount" ->
         Stringify(<<Transaction(1, -50, "expense", "food", Jan1, "lunch")>>)

\* Lists the App can start from: an empty store, or a saved list (unique ids).
SeedLists ==
  { <<>>,
    <<Transaction(1, 50, "expense", "food", Jan1, "lunch"),
      Transaction(2, 50, "income", "income", Jan2, "lunch")>> }

DEFAULT_BUDGET == [monthlyLimit |-> 15000000, savingsGoal |-> 5000000]

ApiKeys == {"", "key"}
Views == {"dashboard", "transactions", "analytics"}
DateFilters == {"week", "month", "year", "all", "custom"}

(* ------------------------------- state --------------------------------- *)
VARIABLES
  transactions,        \* App: the transaction list
  budget,              \* App: the budget
  storedTransactions,  \* localStorage "transactions"
  storedBudget,        \* localStorage "budget"
  currentView,         \* App: the view shown
  apiKey,              \* App: the API credential
  isKeyModalOpen,      \* App: the key-configuration prompt
  aiAdvice,            \* Dashboard: advice text shown ("null" when none)
  isLoadingAi,         \* Dashboard: loading flag
  aiInFlight,          \* calls to the text-generation service not yet answered
  reading,             \* FileReader: <<text>> while a file is being read
  importOutcome,       \* the dialog the last import ended with
  backupFile,          \* <<text>> of the last exported backup file
  dateFilter,          \* Analytics: period
  selectedCategories,  \* Analytics: category selection
  startDate,           \* Analytics: custom range start
  endDate,             \* Analytics: custom range end
  now,                 \* wall clock: local date and hour
  tz,                  \* zone offset of the browser, hours east of UTC
  searchTerm,          \* TransactionList: search text
  filterType,          \* TransactionList: type filter
  selectedIds,         \* TransactionList: ids ticked, in the order ticked
  idsToDelete,         \* TransactionList: ids the delete dialog asks about
  isFormOpen,          \* App: the transaction form is shown
  editTransaction,     \* App: <<record>> being edited, <<>> when none
  form                 \* TransactionForm: its fields while it is mounted

appVars == <<transactions, budget, storedTransactions, storedBudget>>
uiVars == <<currentView, apiKey, isKeyModalOpen>>
aiVars == <<aiAdvice, isLoadingAi, aiInFlight>>
importVars == <<reading, importOutcome, backupFile>>
analyticsVars == <<dateFilter, selectedCategories, startDate, endDate>>
clockVars == <<now, tz>>
listVars == <<searchTerm, filterType, selectedIds, idsToDelete>>
formVars == <<isFormOpen, editTransaction, form>>
vars == <<appVars, uiVars, aiVars, importVars, analyticsVars, clockVars,
          listVars, formVars>>

DefaultNow == [date |-> <<2024, 1, 2>>, hour |-> 12]

\* TransactionList: useState('') / useState('all') / useState([]) / useState([]).
InitListView ==
  /\ searchTerm = ""
  /\ filterType = "all"
  /\ selectedIds = <<>>
  /\ idsToDelete = <<>>

\* The fields of a TransactionForm that is not mounted: nothing reads them.
FormUnmounted ==
  [type |-> "expense", amountStr |-> <<>>, date |-> <<>>, category |-> "food", note |-> ""]

\* App: useState(false) / useState(null); the form is rendered only when open.
InitFormClosed ==
  /\ isFormOpen = FALSE
  /\ editTransaction = <<>>
  /\ form = FormUnmounted

InitApp ==
  /\ transactions \in SeedLists
  /\ budget = DEFAULT_BUDGET
  /\ storedTransactions = Stringify(transactions)
  /\ storedBudget = StringifyBudget(budget)
  /\ currentView = "dashboard"
  /\ apiKey = ""
  /\ isKeyModalOpen = FALSE
  /\ aiAdvice = "null"
  /\ isLoadingAi = FALSE
  /\ aiInFlight = 0
  /\ reading = <<>>
  /\ importOutcome = "none"
  /\ backupFile = <<>>
  /\ InitListView
  /\ InitFormClosed

InitAnalyticsView ==
  /\ dateFilter = "month"
  /\ selectedCategories = ExpenseCategories
  /\ startDate = <<>>
  /\ endDate = <<>>

Init ==
  /\ InitApp
  /\ InitAnalyticsView
  /\ now = DefaultNow
  /\ tz = 7

(* --------------------------- App: handlers ----------------------------- *)
\* useEffect(() => localStorage.setItem("transactions", JSON.stringify(transactions)),
\* [transactions]): runs after every render in which setTransactions put a new array.
SaveTransactions == storedTransactions' = Stringify(transactions')

\* generateId: Date.now() in base 36 followed by nine random characters; a string
\* no record of the collection carries.
GenerateId(list) == {i \in Ids : \A k \in DOMAIN list : list[k].id # i}

AddResult(list, transaction, id) ==
  << Transaction(id, transaction.amount, transaction.type,
                 transaction.category, transaction.date, transaction.note) >> \o list

\* An edit that moves the edited record to the front, as an addition would.
EditResult_ToFront(list, updatedTransaction) ==
  IF \E k \in DOMAIN list : list[k].id = updatedTransaction.id
  THEN <<updatedTransaction>>
         \o SelectSeq(list, LAMBDA t : t.id # updatedTransaction.id)
  ELSE list

\* prev.map(t => t.id === updatedTransaction.id ? updatedTransaction : t)
EditResult(list, updatedTransaction) ==
  [k \in DOMAIN list |->
     IF list[k].id = updatedTransaction.id THEN updatedTransaction ELSE list[k]]

\* A deletion that stops at the first record carrying the id.
RECURSIVE DeleteResult_FirstOnly(_, _)
DeleteResult_FirstOnly(list, id) ==
  IF list = <<>> THEN <<>>
  ELSE IF Head(list).id = id THEN Tail(list)
  ELSE <<Head(list)>> \o DeleteResult_FirstOnly(Tail(list), id)

\* prev.filter(t => t.id !== id)
DeleteResult(list, id) == SelectSeq(list, LAMBDA t : t.id # id)

DeleteManyResult(list, ids) == SelectSeq(list, LAMBDA t : t.id \notin ids)

\* The merge that handleImportData leaves commented out.
ImportResult_Merge(list, importedData) ==
  SelectSeq(importedData, LAMBDA t : \A k \in DOMAIN list : list[k].id # t.id) \o list

ImportResult(list, importedData) == importedData

\* No modal dialog covers the page: the key prompt, the transaction form and
\* the delete dialog are fixed full-screen overlays.
PageFree == ~isKeyModalOpen /\ ~isFormOpen /\ idsToDelete = <<>>

HandleAddTransaction ==
  /\ PageFree
  /\ Len(transactions) < MaxLen
  /\ \E transaction \in AddSubmissions, id \in GenerateId(transactions) :
       transactions' = AddResult(transactions, transaction, id)
  /\ SaveTransactions
  /\ UNCHANGED <<budget, storedBudget, uiVars, aiVars, importVars,
                 analyticsVars, clockVars, listVars, formVars>>

HandleEditTransaction ==
  /\ PageFree
  /\ currentView = "transactions"
  /\ \E k \in DOMAIN transactions :
       \E updatedTransaction \in EditSubmissions(transactions[k]) :
         transactions' = EditResult(transactions, updatedTransaction)
  /\ SaveTransactions
  /\ UNCHANGED <<budget, storedBudget, uiVars, aiVars, importVars,
                 analyticsVars, clockVars, listVars, formVars>>

HandleDeleteTransaction ==
  /\ PageFree
  /\ currentView = "transactions"
  /\ \E k \in DOMAIN transactions :
       transactions' = DeleteResult(transactions, transactions[k].id)
  /\ SaveTransactions
  /\ UNCHANGED <<budget, storedBudget, uiVars, aiVars, importVars,
                 analyticsVars, clockVars, listVars, formVars>>

HandleDeleteManyTransactions ==
  /\ PageFree
  /\ currentView = "transactions"
  /\ \E ids \in SUBSET Ids :
       /\ Cardinality(ids) >= 2
       /\ transactions' = DeleteManyResult(transactions, ids)
  /\ SaveTransactions
  /\ UNCHANGED <<budget, storedBudget, uiVars, aiVars, importVars,
                 analyticsVars, clockVars, listVars, formVars>>

\* Sidebar.onChangeView; the component of the view left is unmounted and its
\* state is lost, the component of the view entered starts from its initial state.
ChangeView ==
  /\ PageFree
  /\ \E v \in Views \ {currentView} : currentView' = v
  /\ aiAdvice' = "null"
  /\ isLoadingAi' = FALSE
  /\ dateFilter' = "month"
  /\ selectedCategories' = ExpenseCategories
  /\ startDate' = <<>>
  /\ endDate' = <<>>
  /\ searchTerm' = ""
  /\ filterType' = "all"
  /\ selectedIds' = <<>>
  /\ idsToDelete' = <<>>
  /\ UNCHANGED <<appVars, apiKey, isKeyModalOpen, aiInFlight, importVars, clockVars,
                 formVars>>

OpenKeyModal ==
  /\ PageFree
  /\ isKeyModalOpen' = TRUE
  /\ UNCHANGED <<appVars, currentView, apiKey, aiVars, importVars,
                 analyticsVars, clockVars, listVars, formVars>>

CloseKeyModal ==
  /\ isKeyModalOpen
  /\ isKeyModalOpen' = FALSE
  /\ UNCHANGED <<appVars, currentView, apiKey, aiVars, importVars,
                 analyticsVars, clockVars, listVars, formVars>>

SaveApiKey ==
  /\ isKeyModalOpen
  /\ \E key \in ApiKeys : apiKey' = key
  /\ isKeyModalOpen' = FALSE
  /\ UNCHANGED <<appVars, currentView, aiVars, importVars, analyticsVars, clockVars, listVars, formVars>>

(* ---------------------- Dashboard: AI advisory -------------------------- *)
\* What the awaited analyzeSpending promise resolves to: the response text,
\* the fallback for an empty text, or the message of the catch block.
AdviceOutcomes == {"advice", "unavailable", "error"}

\* The part of analyzeSpending that runs before its first await: the array it
\* was handed (the App's state array itself) is sorted where it stands.
AnalyzeSpendingSorts(list) == SortByDateDesc(list)

\* The credential check left out.
KeyMissing_Never(key) == FALSE

\* if (!apiKey): the empty string is the only falsy credential.
KeyMissing(key) == key = ""

\* handleAiAnalyze up to the await; the button is disabled while isLoadingAi.
HandleAiAnalyze ==
  /\ PageFree
  /\ currentView = "dashboard"
  /\ ~isLoadingAi
  /\ IF KeyMissing(apiKey)
     THEN /\ isKeyModalOpen' = TRUE
          /\ UNCHANGED <<transactions, aiVars>>
     ELSE /\ aiInFlight < MaxInFlight
          /\ isLoadingAi' = TRUE
          /\ transactions' = AnalyzeSpendingSorts(transactions)
          /\ aiInFlight' = aiInFlight + 1
          /\ UNCHANGED <<isKeyModalOpen, aiAdvice>>
  /\ UNCHANGED <<budget, storedTransactions, storedBudget, currentView, apiKey,
                 importVars, analyticsVars, clockVars, listVars, formVars>>

\* handleAiAnalyze after the await, in the Dashboard that started the request.
AiAnalyzeResumes ==
  /\ isLoadingAi
  /\ \E advice \in AdviceOutcomes : aiAdvice' = advice
  /\ isLoadingAi' = FALSE
  /\ aiInFlight' = aiInFlight - 1
  /\ UNCHANGED <<appVars, uiVars, importVars, analyticsVars, clockVars, listVars, formVars>>

\* The promise of a request whose Dashboard was unmounted settles: its state
\* setters belong to the unmounted component and change nothing.
AiAnalyzeResumesUnmounted ==
  /\ aiInFlight > (IF isLoadingAi THEN 1 ELSE 0)
  /\ aiInFlight' = aiInFlight - 1
  /\ UNCHANGED <<appVars, uiVars, aiAdvice, isLoadingAi, importVars,
                 analyticsVars, clockVars, listVars, formVars>>

(* -------------------- Analytics: JSON export / import ------------------- *)
\* handleExportJSON: the downloaded file holds JSON.stringify(transactions, null, 2).
HandleExportJSON ==
  /\ PageFree
  /\ currentView = "analytics"
  /\ backupFile' = <<Stringify(transactions)>>
  /\ UNCHANGED <<appVars, uiVars, aiVars, reading, importOutcome,
                 analyticsVars, clockVars, listVars, formVars>>

\* handleFileChange: a file was picked, reader.readAsText(file) starts.
HandleFileChange ==
  /\ PageFree
  /\ currentView = "analytics"
  /\ reading = <<>>
  /\ \E src \in ImportFileNames \cup {"backup"} :
       /\ src = "backup" => backupFile # <<>>
       /\ reading' = IF src = "backup" THEN backupFile ELSE <<FileText(src)>>
  /\ UNCHANGED <<appVars, uiVars, aiVars, importOutcome, backupFile,
                 analyticsVars, clockVars, listVars, formVars>>

IsJsonNull(x) == DOMAIN x = {"isNull"}

\* The checks of reader.onload without the Array.isArray test.
ValidateImport_NoArrayCheck(parsedData) ==
  IF parsedData.kind = "error" THEN "invalidFile"
  ELSE IF Len(parsedData.items) > 0 /\ IsJsonNull(parsedData.items[1])
       THEN "invalidFile"
  ELSE IF Len(parsedData.items) > 0
          /\ (~TruthyNumber(parsedData.items[1].amount)
              \/ ~TruthyString(parsedData.items[1].date))
       THEN "badFormat"
  ELSE "valid"

\* The checks of reader.onload with the first element's date not looked at.
ValidateImport_AmountOnly(parsedData) ==
  IF parsedData.kind = "error" THEN "invalidFile"
  ELSE IF parsedData.kind # "array" THEN "notArray"
  ELSE IF Len(parsedData.items) > 0 /\ IsJsonNull(parsedData.items[1])
       THEN "invalidFile"
  ELSE IF Len(parsedData.items) > 0
          /\ ~TruthyNumber(parsedData.items[1].amount)
       THEN "badFormat"
  ELSE "valid"

\* The checks of reader.onload on the parsed value: which dialog, if any,
\* ends the import before the confirmation.
ValidateImport(parsedData) ==
  IF parsedData.kind = "error" THEN "invalidFile"
  ELSE IF parsedData.kind # "array" THEN "notArray"
  ELSE IF Len(parsedData.items) > 0 /\ IsJsonNull(parsedData.items[1])
       THEN "invalidFile"        \* reading .amount of null throws, caught
  ELSE IF Len(parsedData.items) > 0
          /\ (~TruthyNumber(parsedData.items[1].amount)
              \/ ~TruthyString(parsedData.items[1].date))
       THEN "badFormat"
  ELSE "valid"

\* reader.onload: parse, validate, window.confirm, onImportData.
ReaderOnload ==
  /\ reading # <<>>
  /\ reading' = <<>>
  /\ LET parsedData == Parse(reading[1])
         verdict == ValidateImport(parsedData)
     IN IF verdict # "valid"
        THEN /\ importOutcome' = verdict
             /\ UNCHANGED <<transactions, storedTransactions>>
        ELSE \E confirmed \in BOOLEAN :
               IF confirmed
               THEN /\ transactions' = ImportResult(transactions, parsedData.items)
                    /\ SaveTransactions
                    /\ importOutcome' = "restored"
               ELSE /\ importOutcome' = "declined"
                    /\ UNCHANGED <<transactions, storedTransactions>>
  /\ UNCHANGED <<budget, storedBudget, uiVars, aiVars, backupFile,
                 analyticsVars, clockVars, listVars, formVars>>

(* ------------------- Analytics: filtering by period --------------------- *)
MaxTx == 2           \* longest list the Analytics view is given

\* The calendar date in UTC of a local date and hour (toISOString().split("T")[0]).
UtcDateOf(date, hour, zone) ==
  IF hour - zone < 0 THEN PrevDay(date)
  ELSE IF hour - zone >= 24 THEN NextDay(date) ELSE date

\* transactions.filter(t => t.type === "expense" && selectedCategories.includes(t.category))
CategoryFiltered(list, selected) ==
  SelectSeq(list, LAMBDA t : t.type = "expense" /\ t.category \in selected)

\* oneWeekAgo: a copy of now moved back seven calendar days, same local time.
OneWeekAgo(nowv, zone) == LocalTime(AddDays(nowv.date, -7), nowv.hour, zone)

\* week: new Date(t.date) >= oneWeekAgo
InWeek(t, nowv, zone) == ParseDateTime(t.date) >= OneWeekAgo(nowv, zone)

\* month: d.getMonth() === thisMonth && d.getFullYear() === thisYear
InMonth(t, nowv, zone) ==
  LET d == LocalDateOfParsed(t.date, zone)
  IN d[2] = nowv.date[2] /\ d[1] = nowv.date[1]

\* year: new Date(t.date).getFullYear() === thisYear
InYear(t, nowv, zone) == LocalDateOfParsed(t.date, zone)[1] = nowv.date[1]

\* A range test that leaves the end date out.
InCustom_ExclusiveEnd(t, start, end) ==
  DateLeq(start, t.date) /\ DateLeq(t.date, end) /\ t.date # end

\* custom: t.date >= startDate && t.date <= endDate
InCustom(t, start, end) == DateLeq(start, t.date) /\ DateLeq(t.date, end)

\* A period filter that takes every period without a branch for the month.
FilterByPeriod_AllAsMonth(list, filter, selected, start, end, nowv, zone) ==
  LET filtered == CategoryFiltered(list, selected)
  IN CASE filter = "week" -> SelectSeq(filtered, LAMBDA t : InWeek(t, nowv, zone))
       [] filter = "year" -> SelectSeq(filtered, LAMBDA t : InYear(t, nowv, zone))
       [] filter = "custom" ->
            IF start # <<>> /\ end # <<>>
            THEN SelectSeq(filtered, LAMBDA t : InCustom(t, start, end))
            ELSE filtered
       [] OTHER -> SelectSeq(filtered, LAMBDA t : InMonth(t, nowv, zone))

\* processedData: the list "filtered" after the period branch.
FilterByPeriod(list, filter, selected, start, end, nowv, zone) ==
  LET filtered == CategoryFiltered(list, selected)
  IN CASE filter = "week" -> SelectSeq(filtered, LAMBDA t : InWeek(t, nowv, zone))
       [] filter = "month" -> SelectSeq(filtered, LAMBDA t : InMonth(t, nowv, zone))
       [] filter = "year" -> SelectSeq(filtered, LAMBDA t : InYear(t, nowv, zone))
       [] filter = "custom" ->
            IF start # <<>> /\ end # <<>>
            THEN SelectSeq(filtered, LAMBDA t : InCustom(t, start, end))
            ELSE filtered
       [] OTHER -> filtered

\* The filtered list of the current render.
Filtered ==
  FilterByPeriod(transactions, dateFilter, selectedCategories,
                 startDate, endDate, now, tz)

\* CATEGORY_LABELS[key]: the display name of a category.
CATEGORY_LABELS(key) ==
  CASE key = "food" -> "An uong"
    [] key = "transport" -> "Di chuyen"
    [] key = "income" -> "Thu nhap"

\* An accumulation that stores the last amount instead of adding it.
AddToEntries_Overwrite(acc, key, amount) ==
  IF \E i \in DOMAIN acc : acc[i].key = key
  THEN [i \in DOMAIN acc |->
          IF acc[i].key = key THEN [key |-> key, value |-> amount] ELSE acc[i]]
  ELSE Append(acc, [key |-> key, value |-> amount])

\* acc[key] = (acc[key] || 0) + amount on an object, whose entries keep the
\* order in which the keys were first set.
AddToEntries(acc, key, amount) ==
  IF \E i \in DOMAIN acc : acc[i].key = key
  THEN [i \in DOMAIN acc |->
          IF acc[i].key = key
          THEN [key |-> key, value |-> acc[i].value + amount] ELSE acc[i]]
  ELSE Append(acc, [key |-> key, value |-> amount])

\* filtered.reduce(... acc[t.category] ...), then Object.entries.
RECURSIVE CategoryEntriesFrom(_, _)
CategoryEntriesFrom(rest, acc) ==
  IF rest = <<>> THEN acc
  ELSE CategoryEntriesFrom(Tail(rest),
                           AddToEntries(acc, Head(rest).category, Head(rest).amount))

CategoryEntries(filtered) == CategoryEntriesFrom(filtered, <<>>)

\* Array.prototype.sort with (a, b) => b.value - a.value: stable, largest first.
RECURSIVE InsertByValueDesc(_, _)
InsertByValueDesc(r, s) ==
  IF s = <<>> THEN <<r>>
  ELSE IF Head(s).value >= r.value
       THEN <<Head(s)>> \o InsertByValueDesc(r, Tail(s))
       ELSE <<r>> \o s

RECURSIVE SortByValueDescFrom(_, _)
SortByValueDescFrom(rest, acc) ==
  IF rest = <<>> THEN acc
  ELSE SortByValueDescFrom(Tail(rest), InsertByValueDesc(Head(rest), acc))

SortByValueDesc(s) == SortByValueDescFrom(s, <<>>)

\* The mapped rows left in the order of the entries.
CategoryData_Unsorted(filtered) ==
  LET entries == CategoryEntries(filtered)
  IN [i \in DOMAIN entries |->
        [name |-> CATEGORY_LABELS(entries[i].key), key |-> entries[i].key,
         value |-> entries[i].value]]

\* processedData.categoryData
CategoryData(filtered) ==
  LET entries == CategoryEntries(filtered)
  IN SortByValueDesc([i \in DOMAIN entries |->
        [name |-> CATEGORY_LABELS(entries[i].key), key |-> entries[i].key,
         value |-> entries[i].value]])

\* processedData.total
ProcessedTotal(filtered) == SumAmounts(filtered)

\* A grouping rule that turns monthly at 60 days already.
IsMonthlyGrouping_AtLeast60(filter, start, end) ==
  \/ filter = "year"
  \/ /\ filter = "custom"
     /\ start # <<>>
     /\ end # <<>>
     /\ ParseDateTime(end) - ParseDateTime(start) >= 60 * 24

\* isMonthlyGrouping: set for period year, and for period custom with both
\* dates when daysDiff = (end - start) / (one day) is more than 60.
IsMonthlyGrouping(filter, start, end) ==
  \/ filter = "year"
  \/ /\ filter = "custom"
     /\ start # <<>>
     /\ end # <<>>
     /\ ParseDateTime(end) - ParseDateTime(start) > 60 * 24

\* The grouping of the current render.
Monthly == IsMonthlyGrouping(dateFilter, startDate, endDate)

\* The key of a record in timeDataMap: its date string, or for a monthly
\* grouping the year and the two-digit month that the local getters read
\* from new Date(t.date), as "YYYY-MM" (here <<year, month>>).
TimeKey(t, monthly, zone) ==
  IF monthly
  THEN LET d == LocalDateOfParsed(t.date, zone) IN <<d[1], d[2]>>
  ELSE t.date

\* a.localeCompare(b) < 0 for two keys of the same format.
KeyBefore(a, b) ==
  \E i \in DOMAIN a :
    /\ a[i] < b[i]
    /\ \A j \in DOMAIN a : j < i => a[j] = b[j]

\* A pass that keeps, for each key, the amount of its first record only.
RECURSIVE TimeEntriesFrom_FirstPerKey(_, _, _, _)
TimeEntriesFrom_FirstPerKey(rest, acc, monthly, zone) ==
  IF rest = <<>> THEN acc
  ELSE TimeEntriesFrom_FirstPerKey(Tail(rest),
         IF \E i \in DOMAIN acc : acc[i].key = TimeKey(Head(rest), monthly, zone)
         THEN acc
         ELSE AddToEntries(acc, TimeKey(Head(rest), monthly, zone), Head(rest).amount),
         monthly, zone)

\* filtered.forEach(... timeDataMap[key] ...), then Object.entries.
RECURSIVE TimeEntriesFrom(_, _, _, _)
TimeEntriesFrom(rest, acc, monthly, zone) ==
  IF rest = <<>> THEN acc
  ELSE TimeEntriesFrom(Tail(rest),
                       AddToEntries(acc, TimeKey(Head(rest), monthly, zone),
                                    Head(rest).amount),
                       monthly, zone)

\* Array.prototype.sort with a.key.localeCompare(b.key): stable, ascending.
RECURSIVE InsertByKeyAsc(_, _)
InsertByKeyAsc(r, s) ==
  IF s = <<>> THEN <<r>>
  ELSE IF KeyBefore(r.key, Head(s).key)
       THEN <<r>> \o s
       ELSE <<Head(s)>> \o InsertByKeyAsc(r, Tail(s))

RECURSIVE SortByKeyAscFrom(_, _)
SortByKeyAscFrom(rest, acc) ==
  IF rest = <<>> THEN acc
  ELSE SortByKeyAscFrom(Tail(rest), InsertByKeyAsc(Head(rest), acc))

SortByKeyAsc(s) == SortByKeyAscFrom(s, <<>>)

\* The chart label of a key: "MM/YYYY" of "YYYY-MM", "DD/MM" of "YYYY-MM-DD".
TimeLabel(key) ==
  IF Len(key) = 2 THEN <<key[2], key[1]>> ELSE <<key[3], key[2]>>

\* processedData.timeData (formattedTimeData)
TimeData(filtered, monthly, zone) ==
  LET timeData == SortByKeyAsc(TimeEntriesFrom(filtered, <<>>, monthly, zone))
  IN [i \in DOMAIN timeData |->
        [name |-> TimeLabel(timeData[i].key), value |-> timeData[i].value,
         originalKey |-> timeData[i].key]]

(* ------------------- Analytics: comparison cards ------------------------ *)
\* Windows in which the week before ends on the first day of this week.
ComparisonWindows_Overlap(today) ==
  [week |-> [current |-> <<AddDays(today, -6), today>>,
             previous |-> <<AddDays(today, -13), AddDays(today, -6)>>],
   month |-> [current |-> <<<<today[1], today[2], 1>>, today>>,
              previous |-> <<(IF today[2] = 1 THEN <<today[1] - 1, 12, 1>>
                              ELSE <<today[1], today[2] - 1, 1>>),
                             PrevDay(<<today[1], today[2], 1>>)>>],
   year |-> [current |-> <<<<today[1], 1, 1>>, today>>,
             previous |-> <<<<today[1] - 1, 1, 1>>, <<today[1] - 1, 12, 31>>>>]]

\* comparisonData: the first and last day of the current and of the previous
\* window of each card (startThisWeek .. today, startLastWeek .. endLastWeek,
\* and so on), as local calendar dates.
ComparisonWindows(today) ==
  [week |-> [current |-> <<AddDays(today, -6), today>>,
             previous |-> <<AddDays(today, -13), AddDays(today, -7)>>],
   month |-> [current |-> <<<<today[1], today[2], 1>>, today>>,
              previous |-> <<(IF today[2] = 1 THEN <<today[1] - 1, 12, 1>>
                              ELSE <<today[1], today[2] - 1, 1>>),
                             PrevDay(<<today[1], today[2], 1>>)>>],
   year |-> [current |-> <<<<today[1], 1, 1>>, today>>,
             previous |-> <<<<today[1] - 1, 1, 1>>, <<today[1] - 1, 12, 31>>>>]]

ComparisonKinds == {"week", "month", "year"}

\* getSum(start, end): the amounts of the records whose local day, read from
\* new Date(t.date) by stripTime, is from start through end.
GetSum(list, window, zone) ==
  SumAmounts(SelectSeq(list, LAMBDA t :
    /\ DayNumber(window[1]) <= DayNumber(LocalDateOfParsed(t.date, zone))
    /\ DayNumber(LocalDateOfParsed(t.date, zone)) <= DayNumber(window[2])))

RECURSIVE GCD(_, _)
GCD(a, b) == IF b = 0 THEN a ELSE GCD(b, a % b)

\* The number n / d (d > 0), in lowest terms.
Fraction(n, d) ==
  LET g == GCD(Abs(n), d) IN [num |-> n \div g, den |-> d \div g]

\* A percentage that stays 0 whenever there is no previous total.
PercentChange_ZeroWithoutPrevious(current, previous) ==
  IF previous > 0 THEN Fraction((current - previous) * 100, previous)
  ELSE Fraction(0, 1)

\* createCompData: percentChange
PercentChange(current, previous) ==
  IF previous > 0 THEN Fraction((current - previous) * 100, previous)
  ELSE IF current > 0 THEN Fraction(100, 1)
  ELSE Fraction(0, 1)

\* createCompData
CreateCompData(current, previous) ==
  [current |-> current, previous |-> previous,
   percentChange |-> PercentChange(current, previous)]

\* comparisonData: the card of each kind.
ComparisonData(list, selected, today, zone) ==
  LET expenseTransactions == CategoryFiltered(list, selected)
      w == ComparisonWindows(today)
  IN [kind \in ComparisonKinds |->
        CreateCompData(GetSum(expenseTransactions, w[kind].current, zone),
                       GetSum(expenseTransactions, w[kind].previous, zone))]

\* The cards of the current render.
Cards == ComparisonData(transactions, selectedCategories, now.date, tz)

\* The period buttons the view renders.
FilterButtons == {"week", "month", "year", "custom"}

\* setDateFilter(f), then the effect that fills the custom range the first
\* time: the first day of the month and today, each through toISOString.
SetDateFilter ==
  /\ PageFree
  /\ currentView = "analytics"
  /\ \E f \in FilterButtons :
       /\ dateFilter' = f
       /\ IF f = "custom" /\ startDate = <<>>
          THEN /\ startDate' = UtcDateOf(<<now.date[1], now.date[2], 1>>, 0, tz)
               /\ endDate' = UtcDateOf(now.date, now.hour, tz)
          ELSE UNCHANGED <<startDate, endDate>>
  /\ UNCHANGED <<appVars, uiVars, aiVars, importVars, selectedCategories, clockVars, listVars, formVars>>

ToggleCategory ==
  /\ PageFree
  /\ currentView = "analytics"
  /\ \E cat \in ExpenseCategories :
       selectedCategories' =
         IF cat \in selectedCategories
         THEN selectedCategories \ {cat} ELSE selectedCategories \cup {cat}
  /\ UNCHANGED <<appVars, uiVars, aiVars, importVars, dateFilter,
                 startDate, endDate, clockVars, listVars, formVars>>

ToggleAllCategories ==
  /\ PageFree
  /\ currentView = "analytics"
  /\ selectedCategories' =
       IF Cardinality(selectedCategories) = Cardinality(ExpenseCategories)
       THEN {} ELSE ExpenseCategories
  /\ UNCHANGED <<appVars, uiVars, aiVars, importVars, dateFilter,
                 startDate, endDate, clockVars, listVars, formVars>>

\* Values the two date inputs of the custom range can be given: cleared, or
\* a day around the day of the clock.
StartInputs(today) == {<<>>, AddDays(today, -61), AddDays(today, -6)}
EndInputs(today) ==
  {<<>>, AddDays(today, -7), AddDays(today, -1), today}

\* onChange of the start input; the inputs are rendered for period custom.
SetStartDate ==
  /\ PageFree
  /\ currentView = "analytics"
  /\ dateFilter = "custom"
  /\ \E d \in StartInputs(now.date) : startDate' = d
  /\ UNCHANGED <<appVars, uiVars, aiVars, importVars, dateFilter,
                 selectedCategories, endDate, clockVars, listVars, formVars>>

\* onChange of the end input.
SetEndDate ==
  /\ PageFree
  /\ currentView = "analytics"
  /\ dateFilter = "custom"
  /\ \E d \in EndInputs(now.date) : endDate' = d
  /\ UNCHANGED <<appVars, uiVars, aiVars, importVars, dateFilter,
                 selectedCategories, startDate, clockVars, listVars, formVars>>

\* Wall clocks and zones the browser may run with.
NowDates == {<<2024, 3, 1>>, <<2024, 1, 3>>}
Hours == {3, 12}
Zones == {-5, 7}
\* The clocks taken: early morning east of UTC, midday west of UTC.
Clocks == {c \in [date : NowDates, hour : Hours, zone : Zones] :
             (c.hour = 3) = (c.zone = 7)}

\* Dates of the records the view is given, around the day of the clock.
TxDates(today) ==
  { AddDays(today, -7), AddDays(today, -6), AddDays(today, 1),
    <<today[1], today[2], 1>>, <<today[1] - 1, today[2], today[3]>> }

AnalyticsRecords(today) ==
  { [amount |-> 50, type |-> "expense", category |-> "food", date |-> d,
     note |-> "lunch"] : d \in TxDates(today) }
  \cup { [amount |-> 70, type |-> "expense", category |-> "transport",
          date |-> AddDays(today, -6), note |-> "lunch"],
         [amount |-> 0, type |-> "expense", category |-> "transport",
          date |-> AddDays(today, -6), note |-> "lunch"],
         [amount |-> 50, type |-> "income", category |-> "income",
          date |-> today, note |-> "lunch"] }

\* Lists of at most MaxTx records; the k-th record has id k.
AnalyticsLists(today) ==
  UNION { { [k \in 1..n |->
               Transaction(k, f[k].amount, f[k].type, f[k].category,
                           f[k].date, f[k].note)] :
            f \in [1..n -> AnalyticsRecords(today)] } : n \in 0..MaxTx }

\* The Analytics view opened on a stored list, at some wall clock.
InitAnalytics ==
  /\ \E c \in Clocks : now = [date |-> c.date, hour |-> c.hour] /\ tz = c.zone
  /\ transactions \in AnalyticsLists(now.date)
  /\ budget = DEFAULT_BUDGET
  /\ storedTransactions = Stringify(transactions)
  /\ storedBudget = StringifyBudget(budget)
  /\ currentView = "analytics"
  /\ apiKey = ""
  /\ isKeyModalOpen = FALSE
  /\ aiAdvice = "null"
  /\ isLoadingAi = FALSE
  /\ aiInFlight = 0
  /\ reading = <<>>
  /\ importOutcome = "none"
  /\ backupFile = <<>>
  /\ InitListView
  /\ InitFormClosed
  /\ InitAnalyticsView

\* processedData applied to every value of its dateFilter input (the type
\* DateFilter) and, for custom, of the two dates, over a stored list, at
\* some wall clock.
InitPeriod ==
  /\ \E c \in Clocks : now = [date |-> c.date, hour |-> c.hour] /\ tz = c.zone
  /\ transactions \in AnalyticsLists(now.date)
  /\ budget = DEFAULT_BUDGET
  /\ storedTransactions = Stringify(transactions)
  /\ storedBudget = StringifyBudget(budget)
  /\ currentView = "analytics"
  /\ apiKey = ""
  /\ isKeyModalOpen = FALSE
  /\ aiAdvice = "null"
  /\ isLoadingAi = FALSE
  /\ aiInFlight = 0
  /\ reading = <<>>
  /\ importOutcome = "none"
  /\ backupFile = <<>>
  /\ InitListView
  /\ InitFormClosed
  /\ dateFilter \in DateFilters
  /\ selectedCategories = ExpenseCategories
  /\ startDate \in IF dateFilter = "custom" THEN StartInputs(now.date) ELSE {<<>>}
  /\ endDate \in IF dateFilter = "custom" THEN EndInputs(now.date) ELSE {<<>>}

\* Days the comparison cards are computed on: every day from a week before
\* the end of one year to MaxDays days later.
MaxDays == 380
FirstDay == <<2023, 12, 25>>
ComparisonDays == {AddDays(FirstDay, k) : k \in 0..MaxDays}

\* Records around the day of the clock for the comparison cards: one of
\* today, one of a week ago and one of thirteen days ago.
ComparisonRecords(today) ==
  << Transaction(1, 100, "expense", "food", today, "lunch"),
     Transaction(2, 200, "expense", "food", AddDays(today, -7), "lunch"),
     Transaction(3, 100, "expense", "transport", AddDays(today, -13), "lunch") >>

\* The stored lists: any of these records, in this order.
ComparisonLists(today) ==
  { SelectSeq(ComparisonRecords(today), LAMBDA t : t.id \in S) :
      S \in SUBSET DOMAIN ComparisonRecords(today) }

\* The Analytics view opened on a stored list, on any day of ComparisonDays.
InitComparison ==
  /\ \E d \in ComparisonDays, z \in Zones :
       now = [date |-> d, hour |-> 12] /\ tz = z
  /\ transactions \in ComparisonLists(now.date)
  /\ budget = DEFAULT_BUDGET
  /\ storedTransactions = Stringify(transactions)
  /\ storedBudget = StringifyBudget(budget)
  /\ currentView = "analytics"
  /\ apiKey = ""
  /\ isKeyModalOpen = FALSE
  /\ aiAdvice = "null"
  /\ isLoadingAi = FALSE
  /\ aiInFlight = 0
  /\ reading = <<>>
  /\ importOutcome = "none"
  /\ backupFile = <<>>
  /\ InitListView
  /\ InitFormClosed
  /\ InitAnalyticsView

(* ------------- Dashboard and TransactionList: derived totals ----------- *)
\* Dashboard: thisMonthTrans, the records whose parsed date has the local
\* month and year of the clock.
ThisMonthTrans(list, nowv, zone) ==
  SelectSeq(list, LAMBDA t : InMonth(t, nowv, zone))

\* Dashboard: totalIncome, totalExpense (a filter by type, then a sum) and
\* balance.
DashboardTotals(trans) ==
  LET totalIncome == SumAmounts(SelectSeq(trans, LAMBDA t : t.type = "income"))
      totalExpense == SumAmounts(SelectSeq(trans, LAMBDA t : t.type = "expense"))
  IN [totalIncome |-> totalIncome, totalExpense |-> totalExpense,
      balance |-> totalIncome - totalExpense]

\* TransactionList: the values of the type filter.
FilterTypes == {"all", "expense", "income"}

\* text.toLowerCase().includes(term.toLowerCase()), for the lower-case
\* one-word texts and terms used here: the empty term is in every text.
Includes(text, term) == term = "" \/ term = text

\* TransactionList: filteredTransactions, a filter by search term and type,
\* then a sort of the copy, newest first.
FilteredTransactions(list, term, typeFilter) ==
  SortByDateDesc(SelectSeq(list, LAMBDA t :
    /\ \/ Includes(t.note, term)
       \/ Includes(CATEGORY_LABELS(t.category), term)
    /\ typeFilter = "all" \/ t.type = typeFilter))

\* A reduce with the two branches taken the wrong way round.
RECURSIVE ListTotalsFrom_Swapped(_, _)
ListTotalsFrom_Swapped(rest, acc) ==
  IF rest = <<>> THEN acc
  ELSE ListTotalsFrom_Swapped(Tail(rest),
         IF Head(rest).type = "expense"
         THEN [acc EXCEPT !.totalIncome = @ + Head(rest).amount]
         ELSE [acc EXCEPT !.totalExpense = @ + Head(rest).amount])

\* TransactionList: the reduce over filteredTransactions, which adds the
\* amount of an income record to totalIncome and of any other to totalExpense.
RECURSIVE ListTotalsFrom(_, _)
ListTotalsFrom(rest, acc) ==
  IF rest = <<>> THEN acc
  ELSE ListTotalsFrom(Tail(rest),
         IF Head(rest).type = "income"
         THEN [acc EXCEPT !.totalIncome = @ + Head(rest).amount]
         ELSE [acc EXCEPT !.totalExpense = @ + Head(rest).amount])

\* TransactionList: totalIncome, totalExpense and balance.
ListTotals(filteredTransactions) ==
  LET acc == ListTotalsFrom(filteredTransactions,
                            [totalIncome |-> 0, totalExpense |-> 0])
  IN [totalIncome |-> acc.totalIncome, totalExpense |-> acc.totalExpense,
      balance |-> acc.totalIncome - acc.totalExpense]

(* --------------------------- TransactionForm ---------------------------- *)
\* Texts are sequences of characters.
Digits == {"0", "1", "2", "3", "4", "5", "6", "7", "8", "9"}

DigitValue(c) ==
  CASE c = "0" -> 0 [] c = "1" -> 1 [] c = "2" -> 2 [] c = "3" -> 3 [] c = "4" -> 4
    [] c = "5" -> 5 [] c = "6" -> 6 [] c = "7" -> 7 [] c = "8" -> 8 [] c = "9" -> 9

DigitChar(n) ==
  CASE n = 0 -> "0" [] n = 1 -> "1" [] n = 2 -> "2" [] n = 3 -> "3" [] n = 4 -> "4"
    [] n = 5 -> "5" [] n = 6 -> "6" [] n = 7 -> "7" [] n = 8 -> "8" [] n = 9 -> "9"

\* cleanValue.replace(/\B(?=(\d{3})+(?!\d))/g, ","): a comma before every
\* group of three digits counted from the right, except at the start.
RECURSIVE AddCommas(_)
AddCommas(digits) ==
  IF Len(digits) <= 3 THEN digits
  ELSE AddCommas(SubSeq(digits, 1, Len(digits) - 3)) \o <<",">>
         \o SubSeq(digits, Len(digits) - 2, Len(digits))

\* formatInputNumber: "" for the empty text, else the digits of the text
\* with commas added.
FormatInputNumber(value) ==
  IF value = <<>> THEN <<>>
  ELSE AddCommas(SelectSeq(value, LAMBDA c : c \in Digits))

\* n.toString() of a non-negative integer.
RECURSIVE DigitsOf(_)
DigitsOf(n) ==
  IF n < 10 THEN <<DigitChar(n)>> ELSE DigitsOf(n \div 10) \o <<DigitChar(n % 10)>>

\* amount.toString() of an integer.
NumberToString(n) == IF n < 0 THEN <<"-">> \o DigitsOf(-n) ELSE DigitsOf(n)

\* The value of the longest prefix of digits of a text, and its length.
RECURSIVE DigitPrefix(_, _, _)
DigitPrefix(text, value, count) ==
  IF text = <<>> \/ Head(text) \notin Digits THEN [value |-> value, count |-> count]
  ELSE DigitPrefix(Tail(text), value * 10 + DigitValue(Head(text)), count + 1)

\* parseInt(text, 10): an optional sign, then the longest prefix of digits;
\* NaN when there is no digit.
ParseInt(text) ==
  LET negative == text # <<>> /\ Head(text) = "-"
      body == IF text # <<>> /\ Head(text) \in {"-", "+"} THEN Tail(text) ELSE text
      p == DigitPrefix(body, 0, 0)
  IN IF p.count = 0 THEN [nan |-> TRUE, value |-> 0]
     ELSE [nan |-> FALSE, value |-> IF negative THEN -p.value ELSE p.value]

\* parseInt(amountStr.replace(/,/g, ''), 10)
RawAmount(amountStr) == ParseInt(SelectSeq(amountStr, LAMBDA c : c # ","))

\* if (!rawAmount || isNaN(rawAmount)): the submission is refused.
Refused(rawAmount) == rawAmount.nan \/ rawAmount.value = 0

\* new Date().toISOString().split('T')[0]
TodayUtc == UtcDateOf(now.date, now.hour, tz)

\* The effect on [initialData, isOpen] without initialData.
ResetForm ==
  [type |-> "expense", amountStr |-> <<>>, date |-> TodayUtc,
   category |-> "food", note |-> ""]

\* The effect on [initialData, isOpen] with initialData.
LoadedForm(initialData) ==
  [type |-> initialData.type,
   amountStr |-> FormatInputNumber(NumberToString(initialData.amount)),
   date |-> initialData.date, category |-> initialData.category,
   note |-> initialData.note]

\* App.openAddModal, from the header button of any view or the list's buttons.
OpenAddModal ==
  /\ PageFree
  /\ editTransaction' = <<>>
  /\ isFormOpen' = TRUE
  /\ form' = ResetForm
  /\ UNCHANGED <<appVars, uiVars, aiVars, importVars, analyticsVars, clockVars, listVars>>

\* App.openEditModal, from the edit button of a row of the list view.
OpenEditModal ==
  /\ PageFree
  /\ currentView = "transactions"
  /\ \E k \in DOMAIN FilteredTransactions(transactions, searchTerm, filterType) :
       LET t == FilteredTransactions(transactions, searchTerm, filterType)[k]
       IN /\ editTransaction' = <<t>>
          /\ form' = LoadedForm(t)
  /\ isFormOpen' = TRUE
  /\ UNCHANGED <<appVars, uiVars, aiVars, importVars, analyticsVars, clockVars, listVars>>

\* onClose: setIsFormOpen(false); the form is unmounted.
CloseForm ==
  /\ isFormOpen
  /\ isFormOpen' = FALSE
  /\ form' = FormUnmounted
  /\ UNCHANGED <<appVars, uiVars, aiVars, importVars, analyticsVars, clockVars,
                 listVars, editTransaction>>

\* The expense button without the reset of the category.
ExpenseButton_KeepCategory(f) == [f EXCEPT !.type = "expense"]

\* The expense button: setType('expense'); if (category === 'income') setCategory('food').
ExpenseButton(f) ==
  [f EXCEPT !.type = "expense",
            !.category = IF f.category = "income" THEN "food" ELSE f.category]

\* The income button: setType('income'); setCategory('income').
IncomeButton(f) == [f EXCEPT !.type = "income", !.category = "income"]

\* The options of the category select; the select is disabled for income.
CategoryOptions(f) == IF f.type = "income" THEN {} ELSE Categories \ {"income"}

\* Texts typed into the amount input.
AmountInputs ==
  { <<>>, <<"0">>, <<"5", "0">>, <<"-", "5", "0">>, <<"a">> }

ClickExpense ==
  /\ isFormOpen
  /\ form' = ExpenseButton(form)
  /\ UNCHANGED <<appVars, uiVars, aiVars, importVars, analyticsVars, clockVars,
                 listVars, isFormOpen, editTransaction>>

ClickIncome ==
  /\ isFormOpen
  /\ form' = IncomeButton(form)
  /\ UNCHANGED <<appVars, uiVars, aiVars, importVars, analyticsVars, clockVars,
                 listVars, isFormOpen, editTransaction>>

SelectCategory ==
  /\ isFormOpen
  /\ \E c \in CategoryOptions(form) : form' = [form EXCEPT !.category = c]
  /\ UNCHANGED <<appVars, uiVars, aiVars, importVars, analyticsVars, clockVars,
                 listVars, isFormOpen, editTransaction>>

HandleAmountChange ==
  /\ isFormOpen
  /\ \E input \in AmountInputs :
       form' = [form EXCEPT !.amountStr = FormatInputNumber(input)]
  /\ UNCHANGED <<appVars, uiVars, aiVars, importVars, analyticsVars, clockVars,
                 listVars, isFormOpen, editTransaction>>

\* onChange of the date input.
SetDate ==
  /\ isFormOpen
  /\ \E d \in FormDates : form' = [form EXCEPT !.date = d]
  /\ UNCHANGED <<appVars, uiVars, aiVars, importVars, analyticsVars, clockVars,
                 listVars, isFormOpen, editTransaction>>

\* The object handleSubmit passes to onSubmit (the id is set in edit mode only).
Submission(f, id) ==
  Transaction(id, RawAmount(f.amountStr).value, f.type, f.category, f.date, f.note)

\* TransactionForm.handleSubmit, then App.handleEditTransaction when a record
\* is being edited and App.handleAddTransaction otherwise.
HandleSubmit ==
  /\ isFormOpen
  /\ IF Refused(RawAmount(form.amountStr))
     THEN UNCHANGED <<transactions, storedTransactions, formVars>>
     ELSE /\ IF editTransaction # <<>>
             THEN transactions' =
                    EditResult(transactions, Submission(form, editTransaction[1].id))
             ELSE /\ Len(transactions) < MaxLen
                  /\ \E id \in GenerateId(transactions) :
                       transactions' = AddResult(transactions, Submission(form, id), id)
          /\ SaveTransactions
          /\ isFormOpen' = FALSE
          /\ editTransaction' = <<>>
          /\ form' = FormUnmounted
  /\ UNCHANGED <<budget, storedBudget, uiVars, aiVars, importVars, analyticsVars,
                 clockVars, listVars>>

(* ------------------------ TransactionList: view ------------------------- *)
\* Texts typed into the search box: none, and a word no record carries.
SearchTerms == {"", "taxi"}

\* The rows shown by the list view.
Rows == FilteredTransactions(transactions, searchTerm, filterType)

\* isAllSelected: a comparison of the two lengths.
IsAllSelected(filteredTransactions, selected) ==
  Len(filteredTransactions) > 0 /\ Len(selected) = Len(filteredTransactions)

\* The list view is shown and no dialog covers it.
ListFree == currentView = "transactions" /\ PageFree

\* handleSelectAll on a click of the header checkbox, whose checked state is
\* isAllSelected: the click asks for the opposite.
HandleSelectAll ==
  /\ ListFree
  /\ selectedIds' = IF ~IsAllSelected(Rows, selectedIds)
                    THEN [k \in DOMAIN Rows |-> Rows[k].id]
                    ELSE <<>>
  /\ UNCHANGED <<appVars, uiVars, aiVars, importVars, analyticsVars, clockVars,
                 searchTerm, filterType, idsToDelete, formVars>>

\* handleSelectOne(t.id) on the checkbox of a row.
HandleSelectOne ==
  /\ ListFree
  /\ \E k \in DOMAIN Rows :
       selectedIds' = IF \E j \in DOMAIN selectedIds : selectedIds[j] = Rows[k].id
                      THEN SelectSeq(selectedIds, LAMBDA i : i # Rows[k].id)
                      ELSE Append(selectedIds, Rows[k].id)
  /\ UNCHANGED <<appVars, uiVars, aiVars, importVars, analyticsVars, clockVars,
                 searchTerm, filterType, idsToDelete, formVars>>

\* The bulk toolbar, shown in place of the search box and the type filter
\* while selectedIds is not empty: its clear button.
ClearSelection ==
  /\ ListFree
  /\ selectedIds # <<>>
  /\ selectedIds' = <<>>
  /\ UNCHANGED <<appVars, uiVars, aiVars, importVars, analyticsVars, clockVars,
                 searchTerm, filterType, idsToDelete, formVars>>

\* The bulk toolbar's delete button: setIdsToDelete(selectedIds).
RequestBulkDelete ==
  /\ ListFree
  /\ selectedIds # <<>>
  /\ idsToDelete' = selectedIds
  /\ UNCHANGED <<appVars, uiVars, aiVars, importVars, analyticsVars, clockVars,
                 searchTerm, filterType, selectedIds, formVars>>

\* A row's delete button that deletes at once, without the dialog.
RequestDelete_Immediate ==
  /\ ListFree
  /\ \E k \in DOMAIN Rows : transactions' = DeleteResult(transactions, Rows[k].id)
  /\ SaveTransactions
  /\ UNCHANGED <<budget, storedBudget, uiVars, aiVars, importVars, analyticsVars,
                 clockVars, listVars, formVars>>

\* A row's delete button: setIdsToDelete([t.id]).
RequestDelete ==
  /\ ListFree
  /\ \E k \in DOMAIN Rows : idsToDelete' = <<Rows[k].id>>
  /\ UNCHANGED <<appVars, uiVars, aiVars, importVars, analyticsVars, clockVars,
                 searchTerm, filterType, selectedIds, formVars>>

\* The dialog's cancel button: setIdsToDelete([]).
CancelDelete ==
  /\ currentView = "transactions"
  /\ idsToDelete # <<>>
  /\ idsToDelete' = <<>>
  /\ UNCHANGED <<appVars, uiVars, aiVars, importVars, analyticsVars, clockVars,
                 searchTerm, filterType, selectedIds, formVars>>

\* confirmDelete with App.handleDeleteTransaction and
\* App.handleDeleteManyTransactions: the list, the selection and the ids of
\* the dialog it leaves.
ConfirmDeleteEffect(list, selected, ids) ==
  IF Len(ids) > 0
  THEN IF Len(ids) = 1
       THEN [transactions |-> DeleteResult(list, ids[1]),
             selectedIds |-> selected, idsToDelete |-> <<>>]
       ELSE [transactions |-> DeleteManyResult(list, {ids[k] : k \in DOMAIN ids}),
             selectedIds |-> <<>>, idsToDelete |-> <<>>]
  ELSE [transactions |-> list, selectedIds |-> selected, idsToDelete |-> ids]

\* The dialog's confirm button.
ConfirmDelete ==
  /\ currentView = "transactions"
  /\ idsToDelete # <<>>
  /\ LET effect == ConfirmDeleteEffect(transactions, selectedIds, idsToDelete)
     IN /\ transactions' = effect.transactions
        /\ selectedIds' = effect.selectedIds
        /\ idsToDelete' = effect.idsToDelete
  /\ SaveTransactions
  /\ UNCHANGED <<budget, storedBudget, uiVars, aiVars, importVars, analyticsVars,
                 clockVars, searchTerm, filterType, formVars>>

\* The type filter buttons of the standard toolbar.
SetFilterType ==
  /\ ListFree
  /\ selectedIds = <<>>
  /\ \E ft \in FilterTypes \ {filterType} : filterType' = ft
  /\ UNCHANGED <<appVars, uiVars, aiVars, importVars, analyticsVars, clockVars,
                 searchTerm, selectedIds, idsToDelete, formVars>>

\* The search box of the standard toolbar.
SetSearchTerm ==
  /\ ListFree
  /\ selectedIds = <<>>
  /\ \E term \in SearchTerms \ {searchTerm} : searchTerm' = term
  /\ UNCHANGED <<appVars, uiVars, aiVars, importVars, analyticsVars, clockVars,
                 filterType, selectedIds, idsToDelete, formVars>>

(* --------------------------- specifications ----------------------------- *)
\* The transaction store: every handler that replaces the list, the views,
\* and the import of a picked file.
Next ==
  \/ HandleAddTransaction
  \/ HandleEditTransaction
  \/ HandleDeleteTransaction
  \/ HandleDeleteManyTransactions
  \/ ChangeView
  \/ HandleFileChange
  \/ ReaderOnload

Spec == Init /\ [][Next]_vars

\* The store together with the Dashboard's advisory request and the
\* key-configuration prompt.
NextAdvisory ==
  \/ HandleAddTransaction
  \/ HandleEditTransaction
  \/ HandleDeleteTransaction
  \/ HandleDeleteManyTransactions
  \/ ChangeView
  \/ OpenKeyModal
  \/ CloseKeyModal
  \/ SaveApiKey
  \/ HandleAiAnalyze
  \/ AiAnalyzeResumes
  \/ AiAnalyzeResumesUnmounted

SpecAdvisory == Init /\ [][NextAdvisory]_vars

\* The same, with every call to the text-generation service answered: the
\* promise of analyzeSpending settles, by its return or by its catch block.
SpecAdvisoryFair ==
  /\ Init
  /\ [][NextAdvisory]_vars
  /\ WF_vars(AiAnalyzeResumes)
  /\ WF_vars(AiAnalyzeResumesUnmounted)

\* The backup round trip: export, deletions, and import of any file or of
\* the exported backup.
NextBackup ==
  \/ ChangeView
  \/ HandleDeleteTransaction
  \/ HandleExportJSON
  \/ HandleFileChange
  \/ ReaderOnload

SpecBackup == Init /\ [][NextBackup]_vars

\* The Analytics view: period and category selection over a given list.
NextAnalytics ==
  \/ SetDateFilter
  \/ ToggleCategory
  \/ ToggleAllCategories
  \/ SetStartDate
  \/ SetEndDate

SpecAnalytics == InitAnalytics /\ [][NextAnalytics]_vars

\* processedData as a function of its inputs: any period of the type, and
\* the category selection changed by the view's handlers.
NextPeriod ==
  \/ ToggleCategory
  \/ ToggleAllCategories

SpecPeriod == InitPeriod /\ [][NextPeriod]_vars

\* The comparison cards: computed on any day, under the category selection.
NextComparison ==
  \/ ToggleCategory
  \/ ToggleAllCategories

SpecComparison == InitComparison /\ [][NextComparison]_vars

\* Lists the form can be opened over: an empty store, a saved list, and lists
\* an import left (a negative amount under an expense of category income,
\* two records with one id).
FormSeedLists ==
  SeedLists \cup
  { <<Transaction(1, -50, "expense", "income", Jan1, "lunch")>>,
    <<Transaction(1, 50, "expense", "food", Jan1, "lunch"),
      Transaction(1, 50, "income", "income", Jan2, "lunch")>> }

InitForm ==
  /\ transactions \in FormSeedLists
  /\ budget = DEFAULT_BUDGET
  /\ storedTransactions = Stringify(transactions)
  /\ storedBudget = StringifyBudget(budget)
  /\ currentView = "transactions"
  /\ apiKey = ""
  /\ isKeyModalOpen = FALSE
  /\ aiAdvice = "null"
  /\ isLoadingAi = FALSE
  /\ aiInFlight = 0
  /\ reading = <<>>
  /\ importOutcome = "none"
  /\ backupFile = <<>>
  /\ InitListView
  /\ InitFormClosed
  /\ InitAnalyticsView
  /\ now = DefaultNow
  /\ tz = 7

\* The transaction form over the store, opened from the list view.
NextForm ==
  \/ OpenAddModal
  \/ OpenEditModal
  \/ CloseForm
  \/ ClickExpense
  \/ ClickIncome
  \/ SelectCategory
  \/ HandleAmountChange
  \/ SetDate
  \/ HandleSubmit

SpecForm == InitForm /\ [][NextForm]_vars

\* Lists the list view can be given: a saved list of three records, and a
\* list an import left with two records of one id.
ListSeedLists ==
  { <<Transaction(1, 50, "expense", "food", Jan1, "lunch"),
      Transaction(2, 50, "income", "income", Jan2, "lunch"),
      Transaction(3, 50, "expense", "transport", Jan2, "lunch")>>,
    <<Transaction(1, 50, "expense", "food", Jan1, "lunch"),
      Transaction(1, 50, "income", "income", Jan2, "lunch")>> }

InitList ==
  /\ transactions \in ListSeedLists
  /\ budget = DEFAULT_BUDGET
  /\ storedTransactions = Stringify(transactions)
  /\ storedBudget = StringifyBudget(budget)
  /\ currentView = "transactions"
  /\ apiKey = ""
  /\ isKeyModalOpen = FALSE
  /\ aiAdvice = "null"
  /\ isLoadingAi = FALSE
  /\ aiInFlight = 0
  /\ reading = <<>>
  /\ importOutcome = "none"
  /\ backupFile = <<>>
  /\ InitListView
  /\ InitFormClosed
  /\ InitAnalyticsView
  /\ now = DefaultNow
  /\ tz = 7

\* The list view: selection, search, type filter and the delete dialog.
NextList ==
  \/ HandleSelectAll
  \/ HandleSelectOne
  \/ ClearSelection
  \/ RequestBulkDelete
  \/ RequestDelete
  \/ CancelDelete
  \/ ConfirmDelete
  \/ SetFilterType
  \/ SetSearchTerm

SpecList == InitList /\ [][NextList]_vars

(* ------------------------------ properties ------------------------------ *)
\* A step in which reader.onload runs on the file being read.
OnloadStep == reading # <<>> /\ reading' = <<>>

\* The value the file being read parses to.
ReadValue == Parse(reading[1])

\* C1: no two transactions of the collection carry the same id, in every
\* state reachable by add, edit, delete, bulk delete and JSON import.
C1_UniqueIds ==
  \A i, j \in DOMAIN transactions :
    i # j => transactions[i].id # transactions[j].id

\* C2: a file that parses to a JSON value other than an array is rejected
\* with the not-an-array notice; the import handler is not called (no
\* "restored" notice) and the list and its persisted copy stay as they were.
C2_NonArrayRejected ==
  [][ (OnloadStep /\ ReadValue.kind \in {"object", "null"})
      => /\ importOutcome' = "notArray"
         /\ transactions' = transactions
         /\ storedTransactions' = storedTransactions ]_vars

C2_Witness ==
  /\ importOutcome = "notArray"
  /\ transactions # <<>>

\* The first element of a parsed array has no truthy amount or no truthy date.
FirstElementLacksFields(items) ==
  \/ IsJsonNull(items[1])
  \/ items[1].amount = 0
  \/ items[1].date = <<>>

\* C3: a non-empty array whose first element lacks a truthy amount or date
\* ends the import with an error notice (the wrong-format notice; the
\* invalid-file notice when the first element is null) and applies nothing of
\* the imported list; an empty array passes the check and reaches the
\* confirmation.
C3_BadFirstElementAborts ==
  [][ (OnloadStep /\ ReadValue.kind = "array")
      => IF ReadValue.items = <<>>
         THEN importOutcome' \in {"declined", "restored"}
         ELSE FirstElementLacksFields(ReadValue.items)
              => /\ importOutcome' =
                      (IF IsJsonNull(ReadValue.items[1])
                       THEN "invalidFile" ELSE "badFormat")
                 /\ transactions' = transactions
                 /\ storedTransactions' = storedTransactions ]_vars

C3_Witness ==
  /\ importOutcome = "badFormat"
  /\ transactions # <<>>

\* The file being read is an array that passes the first-element check.
StructurallyValid ==
  /\ ReadValue.kind = "array"
  /\ ReadValue.items # <<>> => ~FirstElementLacksFields(ReadValue.items)

\* C4: a structurally valid import changes the list only on confirmation:
\* picking the file changes nothing, a declined confirmation leaves the list
\* unchanged, an accepted one makes the list exactly the imported list.
C4_ReplaceAllOnConfirm ==
  [][ /\ (reading = <<>> /\ reading' # <<>>) => transactions' = transactions
      /\ (OnloadStep /\ StructurallyValid)
         => \/ /\ importOutcome' = "declined"
               /\ transactions' = transactions
            \/ /\ importOutcome' = "restored"
               /\ transactions' = ReadValue.items ]_vars

\* An accepted import of a list with a repeated id: both records are there.
C4_Witness ==
  /\ importOutcome = "restored"
  /\ Len(transactions) = 2
  /\ transactions[1].id = transactions[2].id

\* C5: importing the file that handleExportJSON wrote, unless the
\* confirmation is declined, leaves the list identical to the exported one.
C5_RoundTrip ==
  [][ (OnloadStep /\ backupFile # <<>> /\ reading = backupFile
       /\ importOutcome' # "declined")
      => Stringify(transactions') = backupFile[1] ]_vars

\* C6: the value persisted under "transactions" (under "budget") is the
\* serialization of the in-memory list (budget) after every handler.
C6_PersistedMatchesMemory ==
  /\ storedTransactions = Stringify(transactions)
  /\ storedBudget = StringifyBudget(budget)

\* C7: an advisory request, from the click to the display of its result,
\* leaves the transaction list and the budget exactly as they were.
C7_AdvisoryLeavesStateAlone ==
  [][ (HandleAiAnalyze \/ AiAnalyzeResumes \/ AiAnalyzeResumesUnmounted)
      => /\ transactions' = transactions
         /\ budget' = budget ]_vars

\* C8: with an empty credential the advisory request opens the
\* key-configuration prompt, attempts no call to the text-generation
\* service and does not set the loading flag.
C8_EmptyKeyShortCircuits ==
  [][ (HandleAiAnalyze /\ apiKey = "")
      => /\ isKeyModalOpen'
         /\ aiInFlight' = aiInFlight
         /\ ~isLoadingAi' ]_vars

C8_Witness ==
  /\ apiKey = ""
  /\ isKeyModalOpen
  /\ currentView = "dashboard"
  /\ aiInFlight = 0
  /\ ~isLoadingAi

\* The (selected-category expense) records dated within the seven calendar
\* days that end today.
TrailingWeek ==
  SelectSeq(CategoryFiltered(transactions, selectedCategories),
            LAMBDA t : /\ DateLeq(AddDays(now.date, -6), t.date)
                       /\ DateLeq(t.date, now.date))

\* C9: for period week the filtered list is exactly the selected-category
\* expenses dated from today minus 6 days through today.
C9_WeekIsTrailingSevenDays ==
  dateFilter = "week" => Filtered = TrailingWeek

\* The (selected-category expense) records dated in the calendar month and
\* year of now.
CurrentMonth ==
  SelectSeq(CategoryFiltered(transactions, selectedCategories),
            LAMBDA t : t.date[2] = now.date[2] /\ t.date[1] = now.date[1])

\* C10: for period month the filtered list is exactly the selected-category
\* expenses whose date has the calendar month and year of now.
C10_MonthIsCalendarMonth ==
  dateFilter = "month" => Filtered = CurrentMonth

\* a <= b for two ISO date strings compared as strings, character by
\* character (the fields have fixed width, so field by field).
LexLeq(a, b) ==
  \/ a[1] < b[1]
  \/ a[1] = b[1] /\ a[2] < b[2]
  \/ a[1] = b[1] /\ a[2] = b[2] /\ a[3] <= b[3]

\* C11: for period custom with both dates set, the filtered list is exactly
\* the selected-category expenses dated from startDate through endDate, both
\* included, under lexical comparison; it is empty when startDate > endDate.
C11_CustomRangeInclusive ==
  (dateFilter = "custom" /\ startDate # <<>> /\ endDate # <<>>)
  => /\ Filtered =
          SelectSeq(CategoryFiltered(transactions, selectedCategories),
                    LAMBDA t : LexLeq(startDate, t.date) /\ LexLeq(t.date, endDate))
     /\ ~LexLeq(startDate, endDate) => Filtered = <<>>

\* A custom range whose last day carries a record, which is kept.
C11_Witness ==
  /\ dateFilter = "custom"
  /\ startDate # <<>>
  /\ endDate # <<>>
  /\ \E i \in DOMAIN Filtered : Filtered[i].date = endDate

\* C12: for period custom with startDate or endDate empty, the filtered
\* list is empty.
C12_CustomMissingBoundIsEmpty ==
  (dateFilter = "custom" /\ (startDate = <<>> \/ endDate = <<>>))
  => Filtered = <<>>

\* C13: for period all the period filter returns every record it is given
\* (the selected-category expenses), unchanged and in the same order.
C13_AllKeepsEverything ==
  dateFilter = "all"
  => Filtered = SelectSeq(transactions,
                          LAMBDA t : /\ t.type = "expense"
                                     /\ t.category \in selectedCategories)

\* Period all, after the selection was narrowed to one category, with a
\* record of another year and a record dated tomorrow kept.
C13_Witness ==
  /\ dateFilter = "all"
  /\ selectedCategories = {"food"}
  /\ \E i, j \in DOMAIN Filtered :
       /\ Filtered[i].date[1] < now.date[1]
       /\ Filtered[j].date = AddDays(now.date, 1)

\* The sum of the value fields of a list of rows.
RECURSIVE SumValues(_)
SumValues(rows) ==
  IF rows = <<>> THEN 0 ELSE Head(rows).value + SumValues(Tail(rows))

\* C14: the category breakdown has exactly one row for each category that
\* occurs in the filtered list and none for any other, each row's value is
\* the sum of the amounts of the filtered records of its category, and every
\* row's value is at least the next row's.
C14_CategoryBreakdown ==
  LET rows == CategoryData(Filtered)
  IN /\ \A i, j \in DOMAIN rows : i # j => rows[i].key # rows[j].key
     /\ {rows[i].key : i \in DOMAIN rows}
          = {Filtered[k].category : k \in DOMAIN Filtered}
     /\ \A i \in DOMAIN rows :
          rows[i].value =
            SumAmounts(SelectSeq(Filtered, LAMBDA t : t.category = rows[i].key))
     /\ \A i \in DOMAIN rows :
          i < Len(rows) => rows[i].value >= rows[i + 1].value

\* Two rows, the larger one first although its category came second in the
\* filtered list, reached by changing the period.
C14_Witness ==
  LET rows == CategoryData(Filtered)
  IN /\ dateFilter = "week"
     /\ Len(rows) = 2
     /\ rows[1].value > rows[2].value
     /\ Filtered[1].category = rows[2].key

\* C15: the values of the category breakdown add up to the total of the
\* filtered list.
C15_BreakdownSumsToTotal ==
  SumValues(CategoryData(Filtered)) = ProcessedTotal(Filtered)

\* Two records of one category, in one row that carries both amounts.
C15_Witness ==
  /\ dateFilter = "year"
  /\ Len(Filtered) = 2
  /\ Len(CategoryData(Filtered)) = 1
  /\ ProcessedTotal(Filtered) = 100

\* C16: the grouping is monthly exactly when the period is year, or the
\* period is custom and endDate is more than 60 days after startDate; it is
\* daily in every other case, a custom range of exactly 60 days included.
C16_MonthlyGroupingRule ==
  Monthly
  <=> \/ dateFilter = "year"
      \/ /\ dateFilter = "custom"
         /\ startDate # <<>>
         /\ endDate # <<>>
         /\ DayNumber(endDate) - DayNumber(startDate) > 60

\* A custom range of exactly 60 days, grouped by day.
C16_Witness ==
  /\ dateFilter = "custom"
  /\ startDate # <<>>
  /\ endDate # <<>>
  /\ DayNumber(endDate) - DayNumber(startDate) = 60
  /\ ~Monthly

\* The bucket of a record: its date, or its year and month when monthly.
BucketOf(t) == IF Monthly THEN <<t.date[1], t.date[2]>> ELSE t.date

\* C17: the time series has exactly one bucket for each key that occurs in
\* the filtered list (the date when daily, the year and month of the date
\* when monthly), each bucket's value is the sum of the amounts of the
\* filtered records of that key, and the keys are strictly ascending.
C17_TimeSeriesBuckets ==
  LET rows == TimeData(Filtered, Monthly, tz)
  IN /\ {rows[i].originalKey : i \in DOMAIN rows}
          = {BucketOf(Filtered[k]) : k \in DOMAIN Filtered}
     /\ \A i \in DOMAIN rows :
          rows[i].value =
            SumAmounts(SelectSeq(Filtered,
                                 LAMBDA t : BucketOf(t) = rows[i].originalKey))
     /\ \A i \in DOMAIN rows :
          i < Len(rows) => KeyBefore(rows[i].originalKey, rows[i + 1].originalKey)

\* The windows of the current render, and the number of days of a window.
Windows == ComparisonWindows(now.date)
WindowDays(w) == DayNumber(w[2]) - DayNumber(w[1]) + 1

\* C18 as stated: for each comparison kind the two windows share no day,
\* the previous window ends the day before the current one starts, and the
\* two windows have the same number of days.
C18_WindowsDisjointEqualLength ==
  \A kind \in ComparisonKinds :
    /\ DayNumber(Windows[kind].previous[2]) < DayNumber(Windows[kind].current[1])
    /\ Windows[kind].previous[2] = PrevDay(Windows[kind].current[1])
    /\ WindowDays(Windows[kind].previous) = WindowDays(Windows[kind].current)

\* C18, amended: for each comparison kind the two windows share no day and
\* the previous window ends the day before the current one starts; the two
\* week windows are 7 days each; the month card sets the first of the month
\* through today against the whole previous calendar month, the year card
\* 1 January through today against the whole previous calendar year.
C18_WindowsDisjointAdjacent ==
  /\ \A kind \in ComparisonKinds :
       /\ DayNumber(Windows[kind].previous[1]) <= DayNumber(Windows[kind].previous[2])
       /\ DayNumber(Windows[kind].previous[2]) < DayNumber(Windows[kind].current[1])
       /\ DayNumber(Windows[kind].current[1]) <= DayNumber(Windows[kind].current[2])
       /\ DayNumber(Windows[kind].current[1])
            = DayNumber(Windows[kind].previous[2]) + 1
       /\ Windows[kind].current[2] = now.date
  /\ WindowDays(Windows.week.current) = 7
  /\ WindowDays(Windows.week.previous) = 7
  /\ Windows.month.current[1] = <<now.date[1], now.date[2], 1>>
  /\ Windows.month.previous[1][3] = 1
  /\ WindowDays(Windows.month.previous)
       = DaysInMonth(Windows.month.previous[1][1], Windows.month.previous[1][2])
  /\ Windows.year.current[1] = <<now.date[1], 1, 1>>
  /\ Windows.year.previous = <<<<now.date[1] - 1, 1, 1>>, <<now.date[1] - 1, 12, 31>>>>

\* Early January, after a change of the selection: the previous month and
\* the previous week lie in the year before, and the card of the week holds
\* a record of each window.
C18_Witness ==
  /\ now.date = <<2024, 1, 3>>
  /\ selectedCategories = {"food"}
  /\ Cards.week.current = 100
  /\ Cards.week.previous = 200
  /\ Windows.month.previous = <<<<2023, 12, 1>>, <<2023, 12, 31>>>>

\* C19: percentChange of a card is (current - previous) / previous * 100
\* when previous > 0, 100 when previous = 0 and current > 0, and 0 when both
\* are 0; (0, 0) gives 0, (current 100, previous 0) gives 100 and
\* (current 100, previous 200) gives -50.
C19_PercentChange ==
  /\ \A kind \in ComparisonKinds :
       LET c == Cards[kind]
       IN /\ c.percentChange.den > 0
          /\ c.previous > 0
             => c.percentChange.num * c.previous
                  = (c.current - c.previous) * 100 * c.percentChange.den
          /\ (c.previous = 0 /\ c.current > 0)
             => c.percentChange = [num |-> 100, den |-> 1]
          /\ (c.previous = 0 /\ c.current = 0)
             => c.percentChange = [num |-> 0, den |-> 1]
  /\ PercentChange(0, 0) = [num |-> 0, den |-> 1]
  /\ PercentChange(100, 0) = [num |-> 100, den |-> 1]
  /\ PercentChange(100, 200) = [num |-> -50, den |-> 1]

\* A week card with previous 0 and current 100 next to a year card with a
\* previous total, after a change of the selection.
C19_Witness ==
  /\ selectedCategories = {"food"}
  /\ Cards.week.previous = 0
  /\ Cards.week.current = 100
  /\ Cards.week.percentChange = [num |-> 100, den |-> 1]
  /\ Cards.year.previous > 0
  /\ Cards.year.percentChange.num < 0

\* The totals the claim takes as the definition: the sum of the amounts of
\* the records of type income, of type expense, and their difference.
SumOfType(list, type) ==
  SumAmounts(SelectSeq(list, LAMBDA t : t.type = type))

\* Both computations agree on a list and give the defined totals.
TotalsAgreeOn(list) ==
  LET ofList == ListTotals(list)
      income == SumOfType(list, "income")
      expense == SumOfType(list, "expense")
  IN /\ DashboardTotals(list) = ofList
     /\ ofList = [totalIncome |-> income, totalExpense |-> expense,
                  balance |-> income - expense]

EditSubmitStep ==
  /\ isFormOpen
  /\ editTransaction # <<>>
  /\ ~isFormOpen'
  /\ editTransaction' = <<>>

\* C21: an edit submitted by the form replaces exactly the records whose id
\* is the id of the record being edited, by the submitted fields under that
\* id and at the same position; every other record, the length and the order
\* of the list are unchanged; and an edit whose id no record carries changes
\* nothing.
C21_EditFrame ==
  /\ [][ EditSubmitStep =>
          /\ Len(transactions') = Len(transactions)
          /\ \A k \in DOMAIN transactions :
               IF transactions[k].id = editTransaction[1].id
               THEN transactions'[k] =
                      [id |-> transactions[k].id,
                       amount |-> RawAmount(form.amountStr).value,
                       type |-> form.type, category |-> form.category,
                       date |-> form.date, note |-> form.note]
               ELSE transactions'[k] = transactions[k] ]_vars
  /\ [](\A i \in Ids, d \in FormDates :
          (\A k \in DOMAIN transactions : transactions[k].id # i)
            => EditResult(transactions,
                          Transaction(i, 50, "expense", "food", d, "")) = transactions)

\* The second record of a saved list of two was edited into an expense of
\* another category and date; the first record is as it was saved.
C21_Witness ==
  /\ ~isFormOpen
  /\ Len(transactions) = 2
  /\ transactions[1] = Transaction(1, 50, "expense", "food", Jan1, "lunch")
  /\ transactions[2] = Transaction(2, 50, "expense", "transport", Jan1, "lunch")

\* C22: every transaction of the collection has a non-negative amount, in
\* every state reachable by add, edit, delete, bulk delete and import.
C22_NonNegativeAmounts ==
  \A k \in DOMAIN transactions : transactions[k].amount >= 0

\* C23: selectedIds holds only ids of transactions that still exist, in
\* every state of the list view; in particular after confirmDelete it holds
\* no id of a deleted transaction.
C23_SelectionHoldsExistingIds ==
  \A j \in DOMAIN selectedIds :
    \E k \in DOMAIN transactions : transactions[k].id = selectedIds[j]

\* C24: isAllSelected is true exactly when the filtered list is not empty
\* and every transaction of the filtered list is in selectedIds.
C24_AllSelectedIffEveryRowSelected ==
  IsAllSelected(Rows, selectedIds)
    <=> /\ Len(Rows) > 0
        /\ \A k \in DOMAIN Rows :
             \E j \in DOMAIN selectedIds : selectedIds[j] = Rows[k].id

\* The ids a sequence of ids holds.
IdSet(ids) == {ids[k] : k \in DOMAIN ids}

\* The transaction at position k of the list is not in the list after the step.
Removed(k) == \A j \in DOMAIN transactions' : transactions'[j] # transactions[k]

\* C25: the list view removes a transaction only in a step that empties a
\* non-empty idsToDelete holding its id (confirmDelete after a delete
\* request); a delete request leaves the list and the selection as they
\* were, and the cancel that follows leaves them so and empties idsToDelete;
\* confirmDelete with an empty idsToDelete changes nothing.
C25_RemovalOnlyThroughConfirm ==
  /\ [][ \A k \in DOMAIN transactions :
           Removed(k) => /\ idsToDelete # <<>>
                         /\ idsToDelete' = <<>>
                         /\ transactions[k].id \in IdSet(idsToDelete) ]_vars
  /\ [][ (idsToDelete = <<>> /\ idsToDelete' # <<>>)
           => UNCHANGED <<transactions, selectedIds>> ]_vars
  /\ [](idsToDelete # <<>>
          => ENABLED (CancelDelete /\ UNCHANGED <<transactions, selectedIds>>
                        /\ idsToDelete' = <<>>))
  /\ [](ConfirmDeleteEffect(transactions, selectedIds, <<>>)
          = [transactions |-> transactions, selectedIds |-> selectedIds,
             idsToDelete |-> <<>>])

\* After a confirmed deletion of the first row, the second row is ticked
\* and the dialog asks about the third.
C25_Witness ==
  /\ Len(transactions) = 2
  /\ transactions[1].id = 2
  /\ transactions[2].id = 3
  /\ selectedIds = <<2>>
  /\ idsToDelete = <<3>>

\* C26: confirming the dialog removes exactly the transactions whose id the
\* dialog holds, one id or several; every other transaction stays, with its
\* content and in the same relative order; when no transaction carries the
\* id the list is unchanged.
C26_DeleteFrame ==
  idsToDelete # <<>> =>
    ENABLED ( /\ ConfirmDelete
              /\ \A k \in DOMAIN transactions' :
                   transactions'[k].id \notin IdSet(idsToDelete)
              /\ transactions' =
                   SelectSeq(transactions, LAMBDA t : t.id \notin IdSet(idsToDelete))
              /\ \/ \E k \in DOMAIN transactions :
                      transactions[k].id \in IdSet(idsToDelete)
                 \/ transactions' = transactions )

\* The second record was deleted and the dialog asks about the two ticked
\* records that are left.
C26_Witness ==
  /\ Len(transactions) = 2
  /\ transactions[1].id = 1
  /\ transactions[2].id = 3
  /\ idsToDelete = <<3, 1>>

\* C27: a request that set the loading flag is followed by a state where
\* the flag is clear; the response clears the flag and puts its text, the
\* fallback for an empty text or the failure message in aiAdvice; and as the
\* button is disabled while the flag is set, no more than one call to the
\* service is in flight.
C27_RequestSettlesOneInFlight ==
  /\ isLoadingAi ~> ~isLoadingAi
  /\ [][ (isLoadingAi /\ ~isLoadingAi' /\ currentView' = currentView)
           => aiAdvice' \in AdviceOutcomes ]_vars
  /\ [](aiInFlight <= 1)

\* The type of a form or of a record is income exactly when its category is.
TypeMatchesCategory(r) == r.type = "income" <=> r.category = "income"

\* C28: while the form is open in add mode, and in edit mode on a record
\* whose type is income exactly when its category is, the form's type is
\* income exactly when its category is; so is the type of every transaction
\* an add-mode form submits.
C28_TypeMatchesCategory ==
  /\ []( isFormOpen
           => \/ editTransaction # <<>> /\ ~TypeMatchesCategory(editTransaction[1])
              \/ TypeMatchesCategory(form) )
  /\ [][ (isFormOpen /\ editTransaction = <<>>
            /\ Len(transactions') = Len(transactions) + 1)
           => TypeMatchesCategory(transactions'[1]) ]_vars

\* An add-mode form switched to income was submitted onto a saved list.
C28_Witness ==
  /\ ~isFormOpen
  /\ Len(transactions) = 2
  /\ transactions[1].type = "income"
  /\ transactions[1].note = ""
  /\ transactions[2].note = "lunch"

\* C29: the values of the time series add up to processedData.total and to
\* the sum of the values of the category breakdown, and every filtered
\* transaction has exactly one bucket of the series and exactly one row of
\* the breakdown.
C29_SeriesSumsToTotal ==
  LET filtered == Filtered
      series == TimeData(filtered, Monthly, tz)
      rows == CategoryData(filtered)
      total == SumValues(series)
  IN /\ total = ProcessedTotal(filtered)
     /\ total = SumValues(rows)
     /\ \A k \in DOMAIN filtered :
          /\ Cardinality({i \in DOMAIN series :
                 series[i].originalKey = TimeKey(filtered[k], Monthly, tz)}) = 1
          /\ Cardinality({i \in DOMAIN rows :
                 rows[i].key = filtered[k].category}) = 1

\* A custom range of 61 days, grouped by month, after the selection was
\* narrowed to one category: two records of that category in two buckets
\* and one row.
C29_Witness ==
  /\ dateFilter = "custom"
  /\ Monthly
  /\ selectedCategories = {"food"}
  /\ Len(Filtered) = 2
  /\ Len(TimeData(Filtered, Monthly, tz)) = 2
  /\ Len(CategoryData(Filtered)) = 1
  /\ ProcessedTotal(Filtered) = 100

\* C30: under period week processedData.total is the current value of the
\* 7-day comparison card, and under period month it is the current value of
\* the month card.
C30_PeriodTotalMatchesCard ==
  /\ dateFilter = "week" => ProcessedTotal(Filtered) = Cards["week"].current
  /\ dateFilter = "month" => ProcessedTotal(Filtered) = Cards["month"].current

====
